---- MODULE Spec2Model ----
(***************************************************************************)
(* go-gpt-cli: the concurrent streaming chat (cli/cli.go) and the          *)
(* conversation state machine of the WebSocket client                      *)
(* (internal/client/websocket.go).                                         *)
(*                                                                         *)
(* Two specifications share the Client state:                              *)
(*   Spec        the chat-stream pipeline: handleUserInput, StartStreaming *)
(*               (run by handleAIStreaming), handleDisplay and             *)
(*               runConcurrentChat, with the terminal and the server as    *)
(*               the environment;                                          *)
(*   ClientSpec  goroutines calling the Client's state API concurrently,   *)
(*               with sync.RWMutex modelled lock step by lock step.        *)
(*                                                                         *)
(* Text is a sequence of tokens: "SP" is a white-space character, "NL" a   *)
(* newline, "X" the cross-mark rune the code searches for; any other token *)
(* is a run of ordinary characters.                                        *)
(***************************************************************************)
EXTENDS Integers, Sequences, FiniteSets, TLC

\* ---------------------------------------------------------------- bounds
\* Lines the terminal delivers before end of input.
MaxLines == 3
\* Messages the server delivers before the connection only fails.
MaxServerMsgs == 2
\* Capacity of userInput (5 in cli.go:282), scaled down so that it fills.
UserInputCap == 1
\* Capacity of aiChunks (50 in cli.go:283), scaled down so that it fills.
AiChunksCap == 1
\* Capacity of done (cli.go:284).
DoneCap == 1
\* Goroutines calling the Client API concurrently in ClientSpec.
NThreads == 2
\* Calls they make in all.
MaxCalls == 3
\* Participants registered with the WaitGroup (cli.go:295).
WgParticipants == 3
\* Capacity of aiChunks as the program makes it (cli.go:283).
AiChunksRealCap == 50

\* ------------------------------------------------------ ConversationState
StateIdle == "Idle"
StateResponding == "Responding"
StateCancelling == "Cancelling"
StateResponded == "Responded"
ConversationState == {StateIdle, StateResponding, StateCancelling, StateResponded}

\* ------------------------------------------------------------------ text
SP == "SP"
NL == "NL"
X == "X"

\* strings.Contains(s, tok) for a one-character tok.
Contains(s, tok) == \E i \in 1..Len(s) : s[i] = tok

RECURSIVE TrimLeft(_)
TrimLeft(s) ==
    IF s # <<>> /\ Head(s) \in {SP, NL} THEN TrimLeft(Tail(s)) ELSE s

RECURSIVE TrimRight(_)
TrimRight(s) ==
    IF s # <<>> /\ s[Len(s)] \in {SP, NL}
    THEN TrimRight(SubSeq(s, 1, Len(s) - 1))
    ELSE s

\* strings.TrimSpace
TrimSpace(s) == TrimRight(TrimLeft(s))

\* Lines the user may type (scanner.Text() strips the line end): a blank
\* line, the two exit keywords (one with blanks around it) and an ordinary
\* message, which differs from a keyword only in case.
Lines ==
    { <<SP>>, <<SP, "exit", SP>>, <<"quit">>, <<"Exit">> }

\* Mutant: the exit keywords whatever their case.
IsExitAnyCase(input) == input \in { <<"exit">>, <<"quit">>, <<"Exit">> }

IsExit(input) == input = <<"exit">> \/ input = <<"quit">>

\* Texts a response.text.delta may carry.
DeltaTexts == { <<"Hi">>, <<"a", NL>>, <<X, "b">> }

\* fmt.Sprintf("\n<cross> Connection error: %v\n", err)
ConnErrorText == <<NL, X, "Connection error", NL>>

\* Inbound server messages: the type and the fields the code looks at.
\* isStr says whether "delta" is present as a string; status is the nested
\* response.status, NoStatus when absent or not a string.
NoStatus == "none"
Msg(type, isStr, delta, status) ==
    [type |-> type, isStr |-> isStr, delta |-> delta, status |-> status]
ServerMsgs ==
    {Msg("response.created", FALSE, <<>>, NoStatus)}
    \cup {Msg("response.text.delta", TRUE, d, NoStatus) : d \in DeltaTexts}
    \cup {Msg("response.text.delta", FALSE, <<>>, NoStatus)}
    \cup {Msg("response.done", FALSE, <<>>, s) :
             s \in {"completed", "cancelled", "failed", NoStatus}}
    \cup {Msg("response.cancelled", FALSE, <<>>, NoStatus)}
    \cup {Msg("error", FALSE, <<>>, NoStatus)}
    \cup {Msg("session.created", FALSE, <<>>, NoStatus)}

\* A fragment on aiChunks: its text and the number of the server message it
\* came from (0 for the connection-error text made by StartStreaming).
Chunk(text, n) == [text |-> text, n |-> n]
NoMsg == Msg("none", FALSE, <<>>, NoStatus)

VARIABLES
    state,          \* Client.state
    wire,           \* messages written on the connection, in order
    connClosed,     \* wsClient.Close() has run
    userInput,      \* buffer of the userInput channel
    userInputClosed,
    aiChunks,       \* buffer of the aiChunks channel
    aiChunksClosed,
    done,           \* buffer of the done channel
    doneClosed,
    wg,             \* WaitGroup counter
    panicked,       \* a send on a closed channel or a second close happened
    rpc, rinput,    \* handleUserInput: position, local input
    spc, smsg,      \* StartStreaming: position, message in hand
    dpc, responseActive, currentResponse,   \* handleDisplay
    opc,            \* runConcurrentChat
    linesRead,      \* lines the terminal has delivered
    msgsRead,       \* messages the server has delivered
    pushed,         \* fragments placed on aiChunks so far
    dropped,        \* string deltas dropped because the state was not Responding
    fwdStates,      \* Client.state values seen when a delta was placed
    shown,          \* fragments printed by handleDisplay, in order
    shownStates,    \* Client.state values seen when a fragment was printed
    raised,         \* handleDisplay has sent on done
    sstop,          \* why StartStreaming left its loop: "none" while it runs
    afterRefusal,   \* what handleDisplay did next after a refused send
    stale,          \* fragments at the head of aiChunks older than the last full send
    mu,             \* Client.mu: the goroutine holding the write lock, 0 if free
    tpc, top,       \* per calling goroutine: position, method being called
    tseen,          \* per calling goroutine: c.state as read under the lock
    tok,            \* per calling goroutine: the Try* call found its state
    tres,           \* per calling goroutine: what the last call returned
    calls,          \* calls made so far
    startsSinceIdle,    \* successful TryStartResponse since state was last Idle
    cancelsSinceStart   \* successful TryCancel since the last successful start

vars ==
    << state, wire, connClosed, userInput, userInputClosed, aiChunks,
       aiChunksClosed, done, doneClosed, wg, panicked, rpc, rinput, spc,
       smsg, dpc, responseActive, currentResponse, opc, linesRead,
       msgsRead, pushed, dropped, fwdStates, shown, shownStates, raised,
       sstop, afterRefusal, stale, mu, tpc, top, tseen, tok, tres, calls, startsSinceIdle, cancelsSinceStart >>

clientVars == << state, wire >>
chanVars == << userInput, userInputClosed, aiChunks, aiChunksClosed, done, doneClosed >>
readerVars == << rpc, rinput, linesRead >>
streamerVars == << spc, smsg, msgsRead >>
displayVars == << dpc, responseActive, currentResponse >>
ghostVars ==
    << pushed, dropped, fwdStates, shown, shownStates, raised, sstop,
       afterRefusal, stale >>
threadVars == << mu, tpc, top, tseen, tok, tres, calls >>
countVars == << startsSinceIdle, cancelsSinceStart >>
apiVars == << threadVars, countVars >>
pipeVars ==
    << connClosed, chanVars, wg, panicked, readerVars, streamerVars, displayVars,
       opc, ghostVars >>

\* ----------------------------------------------------- Client state API
\* Mutant: a response may also be started from Responded.
TryStartResponseOkQuiescent(s) == s \in {StateIdle, StateResponded}

\* Mutant: a start that reports success without taking the state.
TryStartResponseStateStays(s) == s

\* TryStartResponse: the value returned and the state left behind.
TryStartResponseOk(s) == s = StateIdle
TryStartResponseState(s) == IF s = StateIdle THEN StateResponding ELSE s

\* Mutant: a cancel also succeeds while one is already under way.
TryCancelOkRepeated(s) == s \in {StateResponding, StateCancelling}

\* TryCancel: the value returned and the state left behind.
TryCancelOk(s) == s = StateResponding
TryCancelState(s) == IF s = StateResponding THEN StateCancelling ELSE s

\* Outbound messages.
ItemCreate(text) == [type |-> "conversation.item.create", text |-> text]
ResponseCreate == [type |-> "response.create", text |-> <<>>]
ResponseCancel == [type |-> "response.cancel", text |-> <<>>]

\* Mutant: SendMessageAsync that writes without asking TryStartResponse.
SendMessageAsyncWireUnchecked(s, w, text, fail) ==
    w \o <<ItemCreate(text), ResponseCreate>>

\* SendMessageAsync(text) with `fail` the first WriteJSON that fails (0: none):
\* what is on the wire afterwards, and whether nil is returned.
SendMessageAsyncWire(s, w, text, fail) ==
    IF ~TryStartResponseOk(s) THEN w
    ELSE IF fail = 1 THEN w
    ELSE IF fail = 2 THEN Append(w, ItemCreate(text))
    ELSE w \o <<ItemCreate(text), ResponseCreate>>
SendMessageAsyncOk(s, fail) == TryStartResponseOk(s) /\ fail = 0

\* --------------------------------------------------------------- channels
\* A receive can proceed: a value is buffered or the channel is closed.
CanRecv(buf, closed) == buf # <<>> \/ closed
\* A send can proceed (on a closed channel it proceeds by panicking).
CanSend(buf, closed, cap) == Len(buf) < cap \/ closed

\* <-done (ctx.Done() in StartStreaming is the done channel it is handed).
DoneReady == CanRecv(done, doneClosed)
RecvDone == done' = (IF done # <<>> THEN Tail(done) ELSE done)

Threads == 1..NThreads

\* ------------------------------------------------------------------ Init
Init ==
    /\ state = StateIdle
    /\ wire = <<>>
    /\ connClosed = FALSE
    /\ userInput = <<>> /\ userInputClosed = FALSE
    /\ aiChunks = <<>> /\ aiChunksClosed = FALSE
    /\ done = <<>> /\ doneClosed = FALSE
    /\ wg = WgParticipants
    /\ panicked = FALSE
    /\ rpc = "scan" /\ rinput = <<>>
    /\ spc = "poll" /\ smsg = NoMsg
    /\ dpc = "select" /\ responseActive = FALSE /\ currentResponse = <<>>
    /\ opc = "wait_done"
    /\ linesRead = 0
    /\ msgsRead = 0
    /\ pushed = 0
    /\ dropped = 0
    /\ fwdStates = {}
    /\ shown = <<>>
    /\ shownStates = {}
    /\ raised = FALSE
    /\ sstop = "none"
    /\ afterRefusal = "none"
    /\ stale = 0
    /\ mu = 0
    /\ tpc = [t \in Threads |-> "idle"]
    /\ top = [t \in Threads |-> "none"]
    /\ tseen = [t \in Threads |-> StateIdle]
    /\ tok = [t \in Threads |-> FALSE]
    /\ tres = [t \in Threads |-> "none"]
    /\ calls = 0
    /\ startsSinceIdle = 0
    /\ cancelsSinceStart = 0

\* -------------------------------------------------------- handleUserInput
\* scanner.Scan() returns a line: trim it, skip it when blank, else go to the
\* select that forwards it.
ReaderScanLine ==
    /\ rpc = "scan"
    /\ linesRead < MaxLines
    /\ \E l \in Lines :
         LET input == TrimSpace(l) IN
         /\ linesRead' = linesRead + 1
         /\ IF input = <<>>
            THEN UNCHANGED << rpc, rinput >>
            ELSE rpc' = "select" /\ rinput' = input
    /\ UNCHANGED << apiVars, clientVars, connClosed, chanVars, wg, panicked, streamerVars,
                    displayVars, opc, ghostVars >>

\* scanner.Scan() returns false: return.
ReaderScanEOF ==
    /\ rpc = "scan"
    /\ rpc' = "stopped"
    /\ wg' = wg - 1
    /\ UNCHANGED << apiVars, clientVars, connClosed, chanVars, panicked, rinput, linesRead,
                    streamerVars, displayVars, opc, ghostVars >>

\* select, case userInput <- input.
ReaderForward ==
    /\ rpc = "select"
    /\ CanSend(userInput, userInputClosed, UserInputCap)
    /\ IF userInputClosed
       THEN panicked' = TRUE /\ UNCHANGED userInput
       ELSE userInput' = Append(userInput, rinput) /\ UNCHANGED panicked
    /\ rpc' = "scan"
    /\ UNCHANGED << apiVars, clientVars, connClosed, userInputClosed, aiChunks,
                    aiChunksClosed, done, doneClosed, wg, rinput, linesRead,
                    streamerVars, displayVars, opc, ghostVars >>

\* Mutant: continue instead of return after case <-done.
ReaderAfterDoneContinue == "scan"

\* Where handleUserInput goes after case <-done.
ReaderAfterDone == "stopped"

\* select, case <-done: return.
ReaderDone ==
    /\ rpc = "select"
    /\ DoneReady
    /\ RecvDone
    /\ rpc' = ReaderAfterDone
    /\ wg' = IF ReaderAfterDone = "stopped" THEN wg - 1 ELSE wg
    /\ UNCHANGED << apiVars, clientVars, connClosed, userInput, userInputClosed, aiChunks,
                    aiChunksClosed, doneClosed, panicked, rinput, linesRead,
                    streamerVars, displayVars, opc, ghostVars >>

\* ---------------------------------------------------------- StartStreaming
\* The select at the top of the loop: case <-ctx.Done() when the signal can be
\* received, else default (ReadJSON).
StreamerPoll ==
    /\ spc = "poll"
    /\ IF DoneReady
       THEN RecvDone /\ spc' = "reset" /\ sstop' = "cancelled"
       ELSE spc' = "read" /\ UNCHANGED << done, sstop >>
    /\ UNCHANGED << apiVars, clientVars, connClosed, userInput, userInputClosed, aiChunks,
                    aiChunksClosed, doneClosed, wg, panicked, readerVars, smsg,
                    msgsRead, displayVars, opc, pushed, dropped, fwdStates, shown,
                    shownStates, raised, afterRefusal, stale >>

\* Mutant: a Reset that leaves the conversation marked as answered.
ResetStateResponded == StateResponded

\* The state c.Reset() sets.
ResetState == StateIdle

\* c.Reset() and return.
StreamerReset ==
    /\ spc = "reset"
    /\ state' = ResetState
    /\ spc' = "stopped"
    /\ wg' = wg - 1
    /\ UNCHANGED << apiVars, wire, connClosed, chanVars, panicked, readerVars, smsg,
                    msgsRead, displayVars, opc, ghostVars >>

\* Mutant: a completed response returns the conversation to Idle.
DoneStatusStateCompletedIdle(status) ==
    IF status \in {"completed", "cancelled"} THEN StateIdle ELSE StateResponded

\* The state a response.done with this status leaves.
DoneStatusState(status) ==
    IF status = "completed" THEN StateResponded
    ELSE IF status = "cancelled" THEN StateIdle
    ELSE StateResponded

\* Mutant: deltas are forwarded whatever the state.
DeltaAcceptedAnyState(s, m) == m.isStr

\* The text-delta guard: c.GetState() == StateResponding and delta is a string.
DeltaAccepted(s, m) == s = StateResponding /\ m.isStr

\* ReadJSON returns the message m.
ReadJSONReturns(m) ==
    /\ spc = "read"
    /\ smsg' = m
    /\ msgsRead' = msgsRead + 1
    /\ spc' = "dispatch"
    /\ UNCHANGED << apiVars, clientVars, connClosed, chanVars, wg, panicked,
                    readerVars, displayVars, opc, ghostVars >>

\* ReadJSON returns a message, any the server may send.
StreamerRead ==
    /\ msgsRead < MaxServerMsgs
    /\ \E m \in ServerMsgs : ReadJSONReturns(m)

\* Mutant: StartStreaming answers a message by writing a cancel itself.
StreamerWireReplies(w) == Append(w, ResponseCancel)

\* What is on the connection after StartStreaming has handled a message: it
\* calls ReadJSON only, never WriteJSON.
StreamerWire(w) == w

\* The switch on the message type, up to the select that forwards a delta.
StreamerDispatch ==
    /\ spc = "dispatch"
    /\ wire' = StreamerWire(wire)
    /\ state' =
         CASE smsg.type = "response.done" -> DoneStatusState(smsg.status)
           [] smsg.type = "response.cancelled" -> StateResponded
           [] smsg.type = "error" -> ResetState
           [] OTHER -> state
    /\ IF smsg.type = "response.text.delta" /\ DeltaAccepted(state, smsg)
       THEN spc' = "send" /\ UNCHANGED smsg
       ELSE spc' = "poll" /\ smsg' = NoMsg
    /\ dropped' =
         IF smsg.type = "response.text.delta" /\ smsg.isStr
            /\ ~DeltaAccepted(state, smsg)
         THEN dropped + 1 ELSE dropped
    /\ UNCHANGED << apiVars, connClosed, chanVars, wg, panicked, readerVars,
                    msgsRead, displayVars, opc, pushed, fwdStates, shown,
                    shownStates, raised, sstop, afterRefusal, stale >>

\* ReadJSON returns an error.
StreamerReadFail ==
    /\ spc = "read"
    /\ spc' = "fail"
    /\ UNCHANGED << apiVars, clientVars, connClosed, chanVars, wg, panicked, readerVars,
                    smsg, msgsRead, displayVars, opc, ghostVars >>

\* A send on aiChunks by StartStreaming.
PushChunk(c) ==
    /\ IF aiChunksClosed
       THEN panicked' = TRUE /\ UNCHANGED << aiChunks, pushed >>
       ELSE /\ aiChunks' = Append(aiChunks, c)
            /\ pushed' = pushed + 1
            /\ UNCHANGED panicked

\* Mutant: the select after a read error without its default case.
FailDefaultMissing == FALSE

\* The default case of the select after a read error is taken: no other case
\* can proceed.
FailDefault ==
    ~CanSend(aiChunks, aiChunksClosed, AiChunksCap) /\ ~DoneReady

\* The select after a read error: the error text, <-ctx.Done(), or default;
\* then c.Reset() and return.
StreamerFail ==
    /\ spc = "fail"
    /\ \/ /\ CanSend(aiChunks, aiChunksClosed, AiChunksCap)
          /\ PushChunk(Chunk(ConnErrorText, 0))
          /\ UNCHANGED done
       \/ /\ DoneReady
          /\ RecvDone
          /\ UNCHANGED << aiChunks, pushed, panicked >>
       \/ /\ FailDefault
          /\ UNCHANGED << aiChunks, pushed, panicked, done >>
    /\ spc' = "reset"
    /\ sstop' = "read_error"
    /\ UNCHANGED << apiVars, clientVars, connClosed, userInput, userInputClosed,
                    aiChunksClosed, doneClosed, wg, readerVars, smsg, msgsRead,
                    displayVars, opc, dropped, fwdStates, shown, shownStates,
                    raised, afterRefusal, stale >>

\* The select that forwards a delta: case chunks <- delta, on a channel of
\* capacity cap.
SendChunk(cap) ==
    /\ spc = "send"
    /\ CanSend(aiChunks, aiChunksClosed, cap)
    /\ PushChunk(Chunk(smsg.delta, msgsRead))
    /\ fwdStates' = fwdStates \cup {state}
    /\ spc' = "poll"
    /\ smsg' = NoMsg
    /\ UNCHANGED << apiVars, clientVars, connClosed, userInput, userInputClosed,
                    aiChunksClosed, done, doneClosed, wg, readerVars,
                    msgsRead, displayVars, opc, dropped, shown, shownStates,
                    raised, sstop, afterRefusal, stale >>

StreamerSend == SendChunk(AiChunksCap)

\* The select that forwards a delta: case <-ctx.Done(): return.
StreamerSendDone ==
    /\ spc = "send"
    /\ DoneReady
    /\ RecvDone
    /\ spc' = "stopped"
    /\ sstop' = "cancelled"
    /\ wg' = wg - 1
    /\ UNCHANGED << apiVars, clientVars, connClosed, userInput, userInputClosed, aiChunks,
                    aiChunksClosed, doneClosed, panicked, readerVars, smsg,
                    msgsRead, displayVars, opc, pushed, dropped, fwdStates, shown,
                    shownStates, raised, afterRefusal, stale >>

\* The select that forwards a delta: default, the channel is full.
StreamerSendSkip ==
    /\ spc = "send"
    /\ ~CanSend(aiChunks, aiChunksClosed, AiChunksCap)
    /\ ~DoneReady
    /\ spc' = "poll"
    /\ smsg' = NoMsg
    /\ UNCHANGED << apiVars, clientVars, connClosed, chanVars, wg, panicked, readerVars,
                    msgsRead, displayVars, opc, ghostVars >>

\* ------------------------------------------------------------ handleDisplay
\* Write failures a SendMessageAsync call may meet: none, the first WriteJSON,
\* the second.
WriteFailures == {0, 1, 2}

\* afterRefusal once handleDisplay has done `what`: recorded for the first
\* thing it does after a refused send.
After(prev, what) == IF prev = "refused" THEN what ELSE prev

\* case input, ok := <-userInput, up to the next select (or to done <- true).
DisplayUser ==
    /\ dpc = "select"
    /\ CanRecv(userInput, userInputClosed)
    /\ IF userInput = <<>>
       THEN /\ dpc' = "raise"
            /\ UNCHANGED << clientVars, userInput, responseActive, currentResponse,
                            afterRefusal, stale >>
       ELSE LET input == Head(userInput) IN
            /\ userInput' = Tail(userInput)
            /\ IF IsExit(input)
               THEN /\ dpc' = "raise"
                    /\ afterRefusal' = After(afterRefusal, "exit")
                    /\ UNCHANGED << clientVars, responseActive, currentResponse,
                                    stale >>
               ELSE \E fail \in WriteFailures :
                    /\ state' = TryStartResponseState(state)
                    /\ wire' = SendMessageAsyncWire(state, wire, input, fail)
                    /\ IF SendMessageAsyncOk(state, fail)
                       THEN responseActive' = TRUE /\ currentResponse' = <<>>
                       ELSE UNCHANGED << responseActive, currentResponse >>
                    /\ afterRefusal' =
                         IF ~TryStartResponseOk(state) THEN "refused"
                         ELSE IF fail = 0 THEN After(afterRefusal, "sent")
                         ELSE After(afterRefusal, "write_error")
                    /\ stale' =
                         IF SendMessageAsyncOk(state, fail) THEN Len(aiChunks)
                         ELSE stale
                    /\ UNCHANGED dpc
    /\ UNCHANGED << apiVars, connClosed, userInputClosed, aiChunks, aiChunksClosed, done,
                    doneClosed, wg, panicked, readerVars, streamerVars, opc,
                    pushed, dropped, fwdStates, shown, shownStates, raised,
                    sstop >>

\* Mutant: every received chunk is printed.
DisplayGateAlways(active, s) == TRUE

\* The guard under which a received chunk is printed.
DisplayGate(active, s) == active

\* Mutant: the terminal shows the newest fragment first.
PrintedFirst(out, chunk) == <<chunk>> \o out

\* fmt.Print(chunk): the terminal's content after the fragment is printed.
Printed(out, chunk) == Append(out, chunk)

\* case chunk, ok := <-aiChunks, up to the next select (or to done <- true).
DisplayChunk ==
    /\ dpc = "select"
    /\ CanRecv(aiChunks, aiChunksClosed)
    /\ IF aiChunks = <<>>
       THEN /\ dpc' = "raise"
            /\ UNCHANGED << aiChunks, responseActive, currentResponse, shown,
                            shownStates, afterRefusal, stale >>
       ELSE LET chunk == Head(aiChunks) IN
            /\ aiChunks' = Tail(aiChunks)
            /\ stale' = IF stale > 0 THEN stale - 1 ELSE 0
            /\ UNCHANGED dpc
            /\ IF DisplayGate(responseActive, state)
               THEN /\ shown' = Printed(shown, chunk)
                    /\ shownStates' = shownStates \cup {state}
                    /\ afterRefusal' = After(afterRefusal, "printed")
                    /\ IF Contains(chunk.text, X)
                       THEN responseActive' = FALSE /\ UNCHANGED currentResponse
                       ELSE /\ currentResponse' = currentResponse \o chunk.text
                            /\ responseActive' = ~Contains(chunk.text, NL)
               ELSE /\ afterRefusal' = After(afterRefusal, "discarded")
                    /\ UNCHANGED << responseActive, currentResponse, shown,
                                    shownStates >>
    /\ UNCHANGED << apiVars, clientVars, connClosed, userInput, userInputClosed,
                    aiChunksClosed, done, doneClosed, wg, panicked, readerVars,
                    streamerVars, opc, pushed, dropped, fwdStates, raised,
                    sstop >>

\* Mutant: handleDisplay goes on with its loop after done <- true.
DisplayAfterRaiseContinue == "select"

\* Where handleDisplay goes after done <- true: it returns.
DisplayAfterRaise == "stopped"

\* done <- true; return.
DisplayRaise ==
    /\ dpc = "raise"
    /\ CanSend(done, doneClosed, DoneCap)
    /\ IF doneClosed
       THEN panicked' = TRUE /\ UNCHANGED done
       ELSE done' = Append(done, TRUE) /\ UNCHANGED panicked
    /\ raised' = TRUE
    /\ dpc' = DisplayAfterRaise
    /\ wg' = IF DisplayAfterRaise = "stopped" THEN wg - 1 ELSE wg
    /\ UNCHANGED << apiVars, clientVars, connClosed, userInput, userInputClosed, aiChunks,
                    aiChunksClosed, doneClosed, readerVars, streamerVars,
                    responseActive, currentResponse, opc, pushed, dropped,
                    fwdStates, shown, shownStates, sstop, afterRefusal, stale >>

\* -------------------------------------------------------- runConcurrentChat
\* <-done
OrchWaitDone ==
    /\ opc = "wait_done"
    /\ DoneReady
    /\ RecvDone
    /\ opc' = "close_done"
    /\ UNCHANGED << apiVars, clientVars, connClosed, userInput, userInputClosed, aiChunks,
                    aiChunksClosed, doneClosed, wg, panicked, readerVars,
                    streamerVars, displayVars, ghostVars >>

\* close(done)
OrchCloseDone ==
    /\ opc = "close_done"
    /\ doneClosed' = TRUE
    /\ panicked' = (panicked \/ doneClosed)
    /\ opc' = "wg_wait"
    /\ UNCHANGED << apiVars, clientVars, connClosed, userInput, userInputClosed, aiChunks,
                    aiChunksClosed, done, wg, readerVars, streamerVars,
                    displayVars, ghostVars >>

\* Mutant: the teardown does not wait for the participants.
WgWaitSkipped == TRUE

\* wg.Wait() returns.
WgWaitReturns == wg = 0

OrchWgWait ==
    /\ opc = "wg_wait"
    /\ WgWaitReturns
    /\ opc' = "close_userInput"
    /\ UNCHANGED << apiVars, clientVars, connClosed, chanVars, wg, panicked, readerVars,
                    streamerVars, displayVars, ghostVars >>

\* close(userInput)
OrchCloseUserInput ==
    /\ opc = "close_userInput"
    /\ userInputClosed' = TRUE
    /\ opc' = "close_aiChunks"
    /\ UNCHANGED << apiVars, clientVars, connClosed, userInput, aiChunks, aiChunksClosed,
                    done, doneClosed, wg, panicked, readerVars, streamerVars,
                    displayVars, ghostVars >>

\* close(aiChunks)
OrchCloseAiChunks ==
    /\ opc = "close_aiChunks"
    /\ aiChunksClosed' = TRUE
    /\ opc' = "conn_close"
    /\ UNCHANGED << apiVars, clientVars, connClosed, userInput, userInputClosed, aiChunks,
                    done, doneClosed, wg, panicked, readerVars, streamerVars,
                    displayVars, ghostVars >>

\* The deferred wsClient.Close(), as runConcurrentChat returns.
OrchConnClose ==
    /\ opc = "conn_close"
    /\ connClosed' = TRUE
    /\ opc' = "returned"
    /\ UNCHANGED << apiVars, clientVars, chanVars, wg, panicked, readerVars, streamerVars,
                    displayVars, ghostVars >>

\* ------------------------------------------- the Client API, lock by lock
\* Methods a goroutine may call.  SetIdle is SetState(StateIdle) (Reset),
\* SetResponded is SetState(StateResponded): the two values StartStreaming sets.
Methods ==
    { "TryStartResponse", "TryCancel", "SetIdle", "SetResponded",
      "SendMessageAsync", "CancelResponse" }
StartMethods == {"TryStartResponse", "SendMessageAsync"}
CancelMethods == {"TryCancel", "CancelResponse"}
SetMethods == {"SetIdle", "SetResponded"}

\* The text the calling goroutines send.
CallText == <<"Exit">>

\* Mutant: Lock() that does not exclude.
MuLockReturnsAlways == TRUE

\* c.mu.Lock() can return: nobody holds the lock.
MuLockReturns == mu = 0

\* A goroutine enters a method.
Call(t) ==
    /\ tpc[t] = "idle"
    /\ calls < MaxCalls
    /\ \E m \in Methods : top' = [top EXCEPT ![t] = m]
    /\ tpc' = [tpc EXCEPT ![t] = "lock"]
    /\ tres' = [tres EXCEPT ![t] = "none"]
    /\ calls' = calls + 1
    /\ UNCHANGED << clientVars, pipeVars, mu, tseen, tok, countVars >>

\* c.mu.Lock()
Lock(t) ==
    /\ tpc[t] = "lock"
    /\ MuLockReturns
    /\ mu' = t
    /\ tpc' = [tpc EXCEPT ![t] = IF top[t] \in SetMethods THEN "set" ELSE "check"]
    /\ UNCHANGED << clientVars, pipeVars, top, tseen, tok, tres, calls, countVars >>

\* The read of c.state in the if of TryStartResponse and TryCancel.
Check(t) ==
    /\ tpc[t] = "check"
    /\ tseen' = [tseen EXCEPT ![t] = state]
    /\ tpc' = [tpc EXCEPT ![t] = "set"]
    /\ UNCHANGED << clientVars, pipeVars, mu, top, tok, tres, calls, countVars >>

\* The body after the read: the assignment to c.state, if any.
Set(t) ==
    /\ tpc[t] = "set"
    /\ LET ok == CASE top[t] \in StartMethods -> TryStartResponseOk(tseen[t])
                   [] top[t] \in CancelMethods -> TryCancelOk(tseen[t])
                   [] OTHER -> TRUE
           new == CASE top[t] \in StartMethods ->
                         IF ok THEN TryStartResponseState(tseen[t]) ELSE state
                    [] top[t] \in CancelMethods ->
                         IF ok THEN TryCancelState(tseen[t]) ELSE state
                    [] top[t] = "SetIdle" -> StateIdle
                    [] OTHER -> StateResponded
       IN
       /\ state' = new
       /\ tok' = [tok EXCEPT ![t] = ok]
       /\ startsSinceIdle' =
            IF top[t] \in StartMethods /\ ok THEN startsSinceIdle + 1
            ELSE IF top[t] = "SetIdle" THEN 0
            ELSE startsSinceIdle
       /\ cancelsSinceStart' =
            IF top[t] \in CancelMethods /\ ok THEN cancelsSinceStart + 1
            ELSE IF top[t] \in StartMethods /\ ok THEN 0
            ELSE cancelsSinceStart
    /\ tpc' = [tpc EXCEPT ![t] = "unlock"]
    /\ UNCHANGED << wire, pipeVars, mu, top, tseen, tres, calls >>

\* The deferred c.mu.Unlock(), and the return of the state method.
Unlock(t) ==
    /\ tpc[t] = "unlock"
    /\ mu' = 0
    /\ IF top[t] \in {"SendMessageAsync", "CancelResponse"}
       THEN /\ tpc' = [tpc EXCEPT ![t] =
                         IF ~tok[t] THEN "refused"
                         ELSE IF top[t] = "SendMessageAsync" THEN "write_item"
                         ELSE "write_cancel"]
            /\ UNCHANGED tres
       ELSE /\ tpc' = [tpc EXCEPT ![t] = "idle"]
            /\ tres' = [tres EXCEPT ![t] =
                          IF top[t] \in SetMethods THEN "void"
                          ELSE IF tok[t] THEN "true" ELSE "false"]
    /\ UNCHANGED << clientVars, pipeVars, top, tseen, tok, calls, countVars >>

\* return fmt.Errorf("failed to ..., state is %s", c.GetState()): GetState takes
\* the read lock, so it waits for a writer.
Refused(t) ==
    /\ tpc[t] = "refused"
    /\ MuLockReturns
    /\ tpc' = [tpc EXCEPT ![t] = "idle"]
    /\ tres' = [tres EXCEPT ![t] = "refused"]
    /\ UNCHANGED << clientVars, pipeVars, mu, top, tseen, tok, calls, countVars >>

\* One c.conn.WriteJSON(msg) of a method: it fails and the method returns the
\* error, or the message is written and the method goes on to `next`.
WriteJSON(t, at, msg, next) ==
    /\ tpc[t] = at
    /\ \/ /\ tpc' = [tpc EXCEPT ![t] = "idle"]
          /\ tres' = [tres EXCEPT ![t] = "write_error"]
          /\ UNCHANGED wire
       \/ /\ wire' = Append(wire, msg)
          /\ tpc' = [tpc EXCEPT ![t] = next]
          /\ tres' = [tres EXCEPT ![t] = IF next = "idle" THEN "nil" ELSE tres[t]]
    /\ UNCHANGED << state, pipeVars, mu, top, tseen, tok, calls, countVars >>

\* SendMessageAsync: the conversation.item.create, then the response.create.
WriteItem(t) == WriteJSON(t, "write_item", ItemCreate(CallText), "write_create")
WriteCreate(t) == WriteJSON(t, "write_create", ResponseCreate, "idle")
\* CancelResponse: the response.cancel.
WriteCancel(t) == WriteJSON(t, "write_cancel", ResponseCancel, "idle")

ClientNext ==
    \E t \in Threads :
        \/ Call(t) \/ Lock(t) \/ Check(t) \/ Set(t) \/ Unlock(t) \/ Refused(t)
        \/ WriteItem(t) \/ WriteCreate(t) \/ WriteCancel(t)

ClientSpec == Init /\ [][ClientNext]_vars

\* ------------------------------------------------------------ the pipeline
Reader == ReaderScanLine \/ ReaderScanEOF \/ ReaderForward \/ ReaderDone
Streamer ==
    \/ StreamerPoll \/ StreamerReset \/ StreamerRead \/ StreamerDispatch
    \/ StreamerReadFail
    \/ StreamerFail \/ StreamerSend \/ StreamerSendDone \/ StreamerSendSkip
Display == DisplayUser \/ DisplayChunk \/ DisplayRaise
Orchestrator ==
    \/ OrchWaitDone \/ OrchCloseDone \/ OrchWgWait \/ OrchCloseUserInput
    \/ OrchCloseAiChunks \/ OrchConnClose

Next == Reader \/ Streamer \/ Display \/ Orchestrator

Spec == Init /\ [][Next]_vars

\* Fairness for the liveness claims: the Go scheduler runs every goroutine
\* that can take a step, the terminal eventually delivers a line or end of
\* input to a pending Scan, and a pending ReadJSON eventually returns a message
\* or an error.
FairSpec ==
    /\ Spec
    /\ WF_vars(Reader)
    /\ WF_vars(Streamer)
    /\ WF_vars(Display)
    /\ WF_vars(Orchestrator)

\* ------------------------------------------------- one answered message
\* The scenario of one exchange: the user types one ordinary message (blank
\* lines may come before it); the server
\* greets with session.created and, once the response.create is written,
\* sends response.created, three text deltas and response.done with status
\* completed, and nothing else; aiChunks has the capacity the program gives it.
ScenarioDeltas == << <<"Hi">>, <<SP, "there">>, <<"!">> >>
ScenarioGreeting == << Msg("session.created", FALSE, <<>>, NoStatus) >>
ScenarioScript ==
    ScenarioGreeting
    \o << Msg("response.created", FALSE, <<>>, NoStatus) >>
    \o [i \in 1..Len(ScenarioDeltas) |->
           Msg("response.text.delta", TRUE, ScenarioDeltas[i], NoStatus)]
    \o << Msg("response.done", FALSE, <<>>, "completed") >>

\* The terminal delivers a line: blank ones, then the one ordinary message.
ScenarioScan ==
    /\ ReaderScanLine
    /\ rinput = <<>>
    /\ ~IsExit(rinput')

\* ReadJSON returns the next message of the script; after its greeting the
\* server speaks only once it was asked to.
ScenarioRead ==
    /\ \/ msgsRead < Len(ScenarioGreeting)
       \/ \E i \in 1..Len(wire) : wire[i] = ResponseCreate
    /\ msgsRead < Len(ScenarioScript)
    /\ ReadJSONReturns(ScenarioScript[msgsRead + 1])

ScenarioSend == SendChunk(AiChunksRealCap)

ScenarioReader == ScenarioScan \/ ReaderForward
ScenarioStreamer ==
    StreamerPoll \/ ScenarioRead \/ StreamerDispatch \/ ScenarioSend
ScenarioDisplay == DisplayUser \/ DisplayChunk

ScenarioNext == ScenarioReader \/ ScenarioStreamer \/ ScenarioDisplay

\* Every goroutine that can take a step is scheduled.
ScenarioSpec ==
    /\ Init
    /\ [][ScenarioNext]_vars
    /\ WF_vars(ScenarioReader)
    /\ WF_vars(ScenarioStreamer)
    /\ WF_vars(ScenarioDisplay)

\* ================================================================== claims

\* A step in which handleDisplay takes an ordinary message off userInput.
DisplayTakesOrdinary ==
    /\ dpc = "select"
    /\ userInput # <<>>
    /\ ~IsExit(Head(userInput))
    /\ userInput' = Tail(userInput)

AllStopped == rpc = "stopped" /\ spc = "stopped" /\ dpc = "stopped"

\* C1: under any interleaving of concurrent TryStartResponse and TryCancel
\* calls (with the SetState calls that bring the state back), at most one
\* TryStartResponse succeeds between two moments at which the state is set to
\* Idle, and at most one TryCancel succeeds per successful TryStartResponse.
C1_NoDoubleStartNoDoubleCancel ==
    startsSinceIdle <= 1 /\ cancelsSinceStart <= 1

\* C1 witness: two goroutines called TryStartResponse concurrently; one won
\* and the other, reading Responding under the lock, was refused.
C1_Witness ==
    \E t1, t2 \in Threads :
        /\ t1 # t2
        /\ top[t1] = "TryStartResponse" /\ tres[t1] = "true"
        /\ top[t2] = "TryStartResponse" /\ tres[t2] = "false"
        /\ tseen[t2] = StateResponding
        /\ startsSinceIdle = 1

\* C2 as claimed: whenever handleDisplay takes an ordinary message while the
\* state is Idle or Responded, the state is Responding afterwards.
C2_SendFromQuiescent ==
    [][(DisplayTakesOrdinary /\ state \in {StateIdle, StateResponded})
         => state' = StateResponding]_vars

\* C3 as claimed: whenever handleDisplay takes an ordinary message while the
\* state is Responding, it writes response.cancel and then the message and its
\* response.create, once.
C3_CancelThenSend ==
    [][(DisplayTakesOrdinary /\ state = StateResponding)
         => wire' = wire \o << ResponseCancel, ItemCreate(Head(userInput)),
                               ResponseCreate >>]_vars

\* C4 as claimed: a SendMessageAsync that finds the state Cancelling still
\* sends the message (it is not refused because of the state).
C4_SendWhileCancelling ==
    \A t \in Threads :
        (top[t] = "SendMessageAsync" /\ tpc[t] = "idle" /\ tres[t] # "none"
           /\ tseen[t] = StateCancelling)
        => tres[t] \in {"nil", "write_error"}

\* C5: userInput, aiChunks and the connection are closed only once all three
\* participants have returned, and nothing was ever sent on a closed channel.
C5_TeardownAfterAllStopped ==
    /\ (userInputClosed \/ aiChunksClosed \/ connClosed) => AllStopped
    /\ ~panicked

\* C5 witness: the chat ran (a message was sent, a fragment was forwarded) and
\* was torn down.
C5_Witness ==
    /\ opc = "returned"
    /\ userInputClosed /\ aiChunksClosed /\ connClosed
    /\ wire # <<>> /\ pushed > 0

\* C6 as claimed: once the signal is raised, runConcurrentChat returns.
C6_RaisedLeadsToReturn == raised ~> (opc = "returned")

\* C7 as claimed: once handleDisplay has sent on done, the signal stays there
\* for runConcurrentChat until it has received it.
C7_SignalReachesOrchestrator ==
    (raised /\ opc = "wait_done") => (done # <<>> \/ doneClosed)

\* C8 as claimed: once the signal is raised, nothing more is placed on
\* userInput.
C8_NoForwardAfterRaise ==
    [][raised => Len(userInput') <= Len(userInput)]_vars

\* C8 amended: when the signal can be received on done and userInput is full,
\* the select of handleUserInput can only abandon the forward and return; and
\* once handleUserInput has returned nothing more is placed on userInput.
C8_AbandonWhenFull ==
    /\ [][(rpc = "select" /\ DoneReady /\ Len(userInput) >= UserInputCap
             /\ rpc' # rpc)
           => (rpc' = "stopped" /\ userInput' = userInput)]_vars
    /\ [][rpc = "stopped" => (rpc' = "stopped"
                               /\ Len(userInput') <= Len(userInput))]_vars

\* C8 witness: "exit" was taken by handleDisplay, the next line filled
\* userInput, and the third line was abandoned at the select.
C8_Witness ==
    /\ raised
    /\ rpc = "stopped"
    /\ linesRead = 3
    /\ rinput = <<"Exit">>
    /\ userInput = << <<"quit">> >>
    /\ wire = <<>> /\ state = StateIdle /\ msgsRead = 0 /\ spc = "read"

DispatchesDelta ==
    /\ spc = "dispatch"
    /\ smsg.type = "response.text.delta"
    /\ spc' # spc

\* C10: a delta is placed on aiChunks only while the state is Responding; no
\* more fragments are printed than were placed; a delta handled while the
\* state is not Responding changes nothing but the position of the streamer.
C10_ForwardOnlyWhenResponding ==
    /\ [](fwdStates \subseteq {StateResponding})
    /\ [](Len(shown) <= pushed)
    /\ [][(DispatchesDelta /\ state # StateResponding)
            => (spc' = "poll"
                /\ UNCHANGED << state, wire, chanVars, pushed, shown, wg >>)]_vars

\* C10 witness: the first delta arrived before any message was sent and was
\* dropped; the second arrived while Responding, was forwarded and printed.
C10_Witness ==
    /\ dropped = 1 /\ pushed = 1
    /\ shown = << Chunk(<<"Hi">>, 2) >>
    /\ fwdStates = {StateResponding}

\* The place of a fragment in the order StartStreaming generates fragments:
\* the number of the server message it came from; the connection-error text
\* comes after every delta, since StartStreaming returns after it.
GenerationOrder(c) == IF c.n = 0 THEN MaxServerMsgs + 1 ELSE c.n

C12_TryStartOnlyFromIdle ==
    \A t \in Threads :
        /\ (top[t] \in StartMethods /\ tpc[t] = "unlock")
             => /\ tok[t] <=> (tseen[t] = StateIdle)
                /\ tok[t] => state = StateResponding
                /\ ~tok[t] => state = tseen[t]
        /\ (top[t] = "TryStartResponse" /\ tres[t] = "true")
             => tseen[t] = StateIdle
        /\ (top[t] = "TryStartResponse" /\ tres[t] = "false")
             => tseen[t] # StateIdle

\* C12 witness: one TryStartResponse returned true, and a later one, reading
\* Cancelling, returned false.
C12_Witness ==
    \E t1, t2 \in Threads :
        /\ t1 # t2
        /\ top[t1] = "TryStartResponse" /\ tres[t1] = "true"
        /\ top[t2] = "TryStartResponse" /\ tres[t2] = "false"
        /\ tseen[t2] = StateCancelling
        /\ state = StateCancelling

\* C13: a TryCancel (called directly or by CancelResponse) succeeds exactly
\* when it reads Responding under the lock; as it returns, the state is
\* Cancelling after a success and still the value it read after a refusal;
\* and CancelResponse writes response.cancel, once, only after a success.
C13_TryCancelOnlyFromResponding ==
    /\ [](\A t \in Threads :
            /\ (top[t] \in CancelMethods /\ tpc[t] = "unlock")
                 => /\ tok[t] <=> (tseen[t] = StateResponding)
                    /\ tok[t] => state = StateCancelling
                    /\ ~tok[t] => state = tseen[t]
            /\ (top[t] = "TryCancel" /\ tres[t] = "true")
                 => tseen[t] = StateResponding
            /\ (top[t] = "TryCancel" /\ tres[t] = "false")
                 => tseen[t] # StateResponding
            /\ (top[t] = "CancelResponse" /\ tres[t] = "refused")
                 => tseen[t] # StateResponding)
    /\ [][\A t \in Threads :
            (top[t] = "CancelResponse" /\ tpc'[t] # tpc[t] /\ wire' # wire)
              => /\ tok[t] /\ tseen[t] = StateResponding
                 /\ wire' = Append(wire, ResponseCancel)]_vars
    /\ [][\A t \in Threads :
            (top[t] = "CancelResponse" /\ tpc[t] = "refused" /\ tpc'[t] # tpc[t])
              => (wire' = wire /\ state' = state)]_vars

\* C13 witness: one CancelResponse wrote response.cancel, and a later one,
\* reading Cancelling, was refused and wrote nothing.
C13_Witness ==
    \E t \in Threads :
        /\ top[t] = "CancelResponse" /\ tres[t] = "refused"
        /\ tseen[t] = StateCancelling
        /\ state = StateCancelling
        /\ wire = << ResponseCancel >>

\* C14: when handleDisplay takes an ordinary message and TryStartResponse is
\* refused (the state is not Idle), nothing is written, the state and
\* responseActive stay as they were, nothing is sent on done, and
\* handleDisplay is back at its select.
C14_RefusedSendIsLocal ==
    /\ [][(DisplayTakesOrdinary /\ state # StateIdle)
            => /\ wire' = wire
               /\ state' = state
               /\ responseActive' = responseActive
               /\ done' = done /\ raised' = raised
               /\ dpc' = "select"
               /\ afterRefusal' = "refused"]_vars
    /\ [](afterRefusal = "refused" => dpc = "select")

\* C14 witness: the first message was sent, the second was refused while the
\* state was Responding, and handleDisplay then printed a fragment.
C14_Witness ==
    /\ afterRefusal = "printed"
    /\ ~raised /\ dpc = "select"
    /\ wire = << ItemCreate(<<"Exit">>), ResponseCreate >>
    /\ state = StateResponding
    /\ shown = << Chunk(<<"Hi">>, 1) >>

\* C15 as claimed: the step in which StartStreaming handles an error message
\* sets the state to Idle, places an error fragment on aiChunks and leaves the
\* read loop.
C15_ErrorPushesAndStops ==
    [][(spc = "dispatch" /\ smsg.type = "error" /\ spc' # spc)
         => /\ state' = StateIdle
            /\ pushed' = pushed + 1
            /\ spc' \in {"reset", "stopped"}]_vars

\* C16 as claimed: the error text is not placed on aiChunks when the signal
\* can already be received on done.
C16_SkippedWhenRaised ==
    [][(spc = "fail" /\ DoneReady /\ spc' # spc) => aiChunks' = aiChunks]_vars

\* C16 amended: after a read error the select can always proceed (it has a
\* default); its step places at most the one error text on aiChunks, and
\* nothing when aiChunks is full; it takes nothing from done unless it places
\* nothing; and StartStreaming then resets the state and returns, for good.
C16_OneNonBlockingAttempt ==
    /\ [](spc = "fail" => ENABLED StreamerFail)
    /\ [][(spc = "fail" /\ spc' # spc)
            => /\ spc' = "reset"
               /\ \/ aiChunks' = aiChunks
                  \/ /\ aiChunks' = Append(aiChunks, Chunk(ConnErrorText, 0))
                     /\ Len(aiChunks) < AiChunksCap
                     /\ done' = done
               /\ (~DoneReady /\ Len(aiChunks) < AiChunksCap)
                    => aiChunks' # aiChunks]_vars
    /\ [][(spc = "reset" /\ spc' # spc)
            => (spc' = "stopped" /\ state' = StateIdle)]_vars
    /\ [][spc = "stopped" => spc' = "stopped"]_vars

\* C16 witness: ReadJSON failed while aiChunks was full and nothing had been
\* sent on done; the error text was skipped and StartStreaming is returning.
C16_Witness ==
    /\ sstop = "read_error"
    /\ spc = "reset"
    /\ ~raised
    /\ Len(aiChunks) = AiChunksCap
    /\ \A i \in 1..Len(aiChunks) : aiChunks[i].n # 0
    /\ pushed = 1

\* StartStreaming has returned because ReadJSON failed.
StoppedOnReadError == sstop = "read_error" /\ spc = "stopped"

C18_ReadFailureEndsSession == StoppedOnReadError ~> raised

\* C19: every message on userInput is trimmed and not blank; when
\* handleDisplay takes one that is exactly "exit" or "quit" it writes nothing,
\* leaves the state alone and goes on to send on done, which cannot block, and
\* returns; any other message, "Exit" included, is handed to SendMessageAsync
\* and handleDisplay stays in its loop without sending on done.
C19_ExitKeywords ==
    /\ [](\A i \in 1..Len(userInput) :
            userInput[i] # <<>> /\ TrimSpace(userInput[i]) = userInput[i])
    /\ [][(dpc = "select" /\ userInput # <<>> /\ userInput' = Tail(userInput))
            => IF Head(userInput) \in { <<"exit">>, <<"quit">> }
               THEN dpc' = "raise" /\ wire' = wire /\ state' = state
               ELSE /\ dpc' = "select" /\ done' = done /\ raised' = raised
                    /\ state = StateIdle => state' = StateResponding]_vars
    /\ [](dpc = "raise" => ENABLED DisplayRaise)
    /\ [][(dpc = "raise" /\ dpc' # dpc)
            => /\ dpc' = "stopped"
               /\ raised' /\ done' = Append(done, TRUE)
               /\ wire' = wire /\ state' = state]_vars

\* C19 witness: "Exit" was sent as an ordinary message, then an exit keyword
\* made handleDisplay send on done and return.
C19_Witness ==
    /\ raised /\ dpc = "stopped"
    /\ linesRead = 2
    /\ wire = << ItemCreate(<<"Exit">>), ResponseCreate >>
    /\ state = StateResponding
    /\ done = << TRUE >>

\* C20 as claimed: once a producer has returned and its channel is empty, the
\* signal is eventually raised.
C20_DrainedProducerEndsPipeline ==
    ((rpc = "stopped" /\ userInput = <<>>) \/ (spc = "stopped" /\ aiChunks = <<>>))
        ~> raised

\* The three deltas of the scenario as handleDisplay prints them.
ScenarioShown ==
    [i \in 1..Len(ScenarioDeltas) |->
        Chunk(ScenarioDeltas[i], Len(ScenarioGreeting) + 1 + i)]

\* The one message of the scenario was written in full.
ScenarioSent == wire = << ItemCreate(<<"Exit">>), ResponseCreate >>

C22_AcceptedDeltaForwarded ==
    [][(spc = "send" /\ spc' = "poll" /\ ~aiChunksClosed)
         => aiChunks' = Append(aiChunks, Chunk(smsg.delta, msgsRead))]_vars

\* C23 as claimed: the step in which StartStreaming handles response.done
\* with status completed or cancelled places a terminal marker on aiChunks.
C23_DonePushesMarker ==
    [][(spc = "dispatch" /\ smsg.type = "response.done"
        /\ smsg.status \in {"completed", "cancelled"} /\ spc' # spc)
         => pushed' = pushed + 1]_vars

C25_LeavesIdleOnlyByStart ==
    [][(state = StateIdle /\ state' # StateIdle)
         => (DisplayTakesOrdinary /\ state' = StateResponding)]_vars

\* A step in which handleDisplay receives a fragment without the cross sign.
DisplayTakesPlainChunk ==
    /\ dpc = "select"
    /\ aiChunks # <<>>
    /\ aiChunks' = Tail(aiChunks)
    /\ ~Contains(Head(aiChunks).text, X)

\* C26 as claimed: an ordinary fragment received while the state is
\* Responding or Responded is printed, and receiving it does not end the
\* display of the current response.
C26_OrdinaryShownNeverMarker ==
    [][DisplayTakesPlainChunk =>
         /\ state \in {StateResponding, StateResponded}
               => shown' = Printed(shown, Head(aiChunks))
         /\ responseActive' = responseActive]_vars

\* C27 as claimed: userInput changes only by handleUserInput appending the
\* line it holds or by handleDisplay removing the head, so no message is
\* received twice; and none is left in it when runConcurrentChat has returned.
C27_ConsumedExactlyOnce ==
    /\ [][userInput' # userInput =>
            \/ userInput' = Append(userInput, rinput)
            \/ (dpc = "select" /\ userInput # <<>>
                /\ userInput' = Tail(userInput))]_vars
    /\ [](opc = "returned" => userInput = <<>>)

\* C28: the connection is written only in handleDisplay's steps, one
\* SendMessageAsync call at a time, and read only in StartStreaming's steps,
\* one message at a time; neither happens once the connection is closed.
C28_OneWriterOneReader ==
    /\ [][wire' # wire =>
            /\ DisplayTakesOrdinary
            /\ \E fail \in WriteFailures :
                 wire' = SendMessageAsyncWire(state, wire, Head(userInput), fail)
            /\ msgsRead' = msgsRead]_vars
    /\ [][msgsRead' # msgsRead =>
            /\ spc = "read" /\ spc' = "dispatch"
            /\ msgsRead' = msgsRead + 1
            /\ wire' = wire]_vars
    /\ [][connClosed => (wire' = wire /\ msgsRead' = msgsRead)]_vars

\* C28 witness: a message was written and a server message read, and the
\* connection has been closed since.
C28_Witness ==
    /\ Len(wire) = 2
    /\ msgsRead >= 1
    /\ connClosed

\* C29 as claimed: a delta printed after a message was sent was not
\* already waiting in aiChunks when that message was sent, so it does not
\* come from an earlier response.
C29_ShownBelongsToLastSend ==
    [][(dpc = "select" /\ aiChunks # <<>> /\ aiChunks' = Tail(aiChunks)
        /\ shown' # shown /\ Head(aiChunks).n >= 1)
         => stale = 0]_vars

\* C30 as claimed: when the SendMessageAsync call of handleDisplay returns an
\* error (refused, or a WriteJSON failed, so the two frames were not both
\* written), the state is what it was before the call.
C30_ErrorLeavesState ==
    [][(DisplayTakesOrdinary
        /\ wire' # wire \o << ItemCreate(Head(userInput)), ResponseCreate >>)
         => state' = state]_vars

\* C31 as claimed: whenever StartStreaming returns, the state is Idle.
C31_IdleWhenStreamingReturns ==
    [][(spc # "stopped" /\ spc' = "stopped") => state' = StateIdle]_vars

\* C32: a value is placed on done only by handleDisplay's done <- true, which
\* it has not done before and which finds room in a channel not yet closed;
\* done is closed only by runConcurrentChat's close(done), once.
C32_DoneSentOnceClosedOnce ==
    /\ [][(done' # done /\ Len(done') > Len(done)) =>
            /\ dpc = "raise" /\ dpc' = "stopped"
            /\ ~raised
            /\ done' = Append(done, TRUE)]_vars
    /\ [](dpc = "raise" => (~raised /\ ~doneClosed /\ Len(done) < DoneCap))
    /\ [](raised => dpc = "stopped")
    /\ [][doneClosed' # doneClosed =>
            /\ opc = "close_done" /\ opc' = "wg_wait"
            /\ ~doneClosed /\ doneClosed']_vars
    /\ [](doneClosed => opc \notin {"wait_done", "close_done"})

\* C32 witness: handleDisplay has sent on done and returned, and
\* runConcurrentChat has closed it.
C32_Witness ==
    /\ raised
    /\ dpc = "stopped"
    /\ doneClosed
    /\ opc = "wg_wait"

====
